---- MODULE Spec2Model ----
(***************************************************************************)
(* A model of scripts/download_mods.py: the input loader                   *)
(* (load_project_ids), the release selector (pick_latest_release) and the  *)
(* orchestrator (main) with the staging directory, the HTTP requests it    *)
(* issues and the lines it prints.                                         *)
(*                                                                         *)
(* Conventions.  A Python dict is a TLA+ record whose DOMAIN holds exactly *)
(* the keys that are present, so dict.get(k, d) is Get(f, k, d).  Strings  *)
(* that the code compares with < (fileDate) or tests with endswith (file   *)
(* names) are sequences of characters; characters of a fileDate are their  *)
(* code points, so that Python's code-point order is the order on Nat.     *)
(* A parsed JSON value is a record tagged by its Python type.              *)
(***************************************************************************)
EXTENDS Integers, Sequences, FiniteSets, TLC

VARIABLES
    pc,         \* position of the running function
    args,       \* argparse result: [mcver, loader, allow_beta]
    files,      \* the list of file records handed to pick_latest_release
    chosen,     \* what pick_latest_release returned (None when nothing)
    data,       \* json.load(f): the parsed input file
    proj_ids,   \* what load_project_ids returned
    exc,        \* the exception that ended the process ("none" while alive)
    api_key,    \* os.environ.get("CURSEFORGE_API_KEY")
    outdir,     \* the staging directory: [exists, entries]
    pre,        \* the staging directory as it was before the run
    todo,       \* os.listdir snapshot still to be visited by the pre-clean
    i,          \* number of projects the loop has finished with
    http,       \* the HTTP requests issued so far, in order
    stdout,     \* the lines printed so far, in order
    written     \* the files written by downloads so far, in order

vars == <<pc, args, files, chosen, data, proj_ids, exc, api_key, outdir, pre,
          todo, i, http, stdout, written>>

-----------------------------------------------------------------------------
(* Bounds of the model.                                                    *)

MaxFiles == 3       \* longest list of file records given to the selector
MaxProjects == 3    \* longest list of project ids in the input file

-----------------------------------------------------------------------------
(* Python values.                                                          *)

None == [t |-> "None"]

Get(f, k, d) == IF k \in DOMAIN f THEN f[k] ELSE d

Range(s) == {s[n] : n \in 1..Len(s)}

\* a < b for Python str: code points compared left to right, a proper
\* prefix is smaller.
RECURSIVE StrLess(_, _)
StrLess(a, b) ==
    IF b = <<>> THEN FALSE
    ELSE IF a = <<>> THEN TRUE
    ELSE IF Head(a) # Head(b) THEN Head(a) < Head(b)
    ELSE StrLess(Tail(a), Tail(b))

\* releaseType: 1=release, 2=beta, 3=alpha
Release == 1
Beta == 2
Alpha == 3

-----------------------------------------------------------------------------
(* pick_latest_release                                                     *)

\* ok with the alpha tier let through when pre-releases are allowed
okAlphaAllowed(f, mc_ver, loader, allow_prerelease) ==
    LET gv == Range(Get(f, "gameVersions", <<>>))
        rt == Get(f, "releaseType", Alpha)
    IN  IF mc_ver \notin gv THEN FALSE
        ELSE IF loader # "" /\ loader \notin gv THEN FALSE
        ELSE IF allow_prerelease THEN rt \in {Release, Beta, Alpha}
        ELSE rt = Release

\* the nested function ok(f, allow_prerelease); mc_ver and loader are the
\* variables it closes over.
ok(f, mc_ver, loader, allow_prerelease) ==
    LET gv == Range(Get(f, "gameVersions", <<>>))
        rt == Get(f, "releaseType", Alpha)
    IN  IF mc_ver \notin gv THEN FALSE
        ELSE IF loader # "" /\ loader \notin gv THEN FALSE
        ELSE IF allow_prerelease THEN rt \in {Release, Beta}
        ELSE rt = Release

\* [f for f in fs if ok(f, allow_prerelease)]
RECURSIVE Filter(_, _, _, _)
Filter(fs, mc_ver, loader, allow_prerelease) ==
    IF fs = <<>> THEN <<>>
    ELSE (IF ok(Head(fs), mc_ver, loader, allow_prerelease)
          THEN <<Head(fs)>> ELSE <<>>)
         \o Filter(Tail(fs), mc_ver, loader, allow_prerelease)

\* key=lambda f: f.get("fileDate","")
SortKey(f) == Get(f, "fileDate", <<>>)

\* Where a stable descending sort puts x among the already sorted s: behind
\* every element whose key is not smaller than x's.
RECURSIVE InsertDesc(_, _)
InsertDesc(x, s) ==
    IF s = <<>> THEN <<x>>
    ELSE IF StrLess(SortKey(Head(s)), SortKey(x)) THEN <<x>> \o s
    ELSE <<Head(s)>> \o InsertDesc(x, Tail(s))

\* the same sort without stability: x goes in front of its equals
RECURSIVE InsertDescUnstable(_, _)
InsertDescUnstable(x, s) ==
    IF s = <<>> THEN <<x>>
    ELSE IF ~StrLess(SortKey(x), SortKey(Head(s))) THEN <<x>> \o s
    ELSE <<Head(s)>> \o InsertDescUnstable(x, Tail(s))

RECURSIVE SortDescUnstable(_)
SortDescUnstable(s) ==
    IF s = <<>> THEN <<>>
    ELSE InsertDescUnstable(s[Len(s)], SortDescUnstable(SubSeq(s, 1, Len(s) - 1)))

\* candidates.sort(key=..., reverse=True): list.sort is stable, and with
\* reverse=True equal keys keep their original relative order.
RECURSIVE SortDesc(_)
SortDesc(s) ==
    IF s = <<>> THEN <<>>
    ELSE InsertDesc(s[Len(s)], SortDesc(SubSeq(s, 1, Len(s) - 1)))

Candidates(fs, mc_ver, loader, allow_beta) ==
    LET strict == Filter(fs, mc_ver, loader, FALSE)
    IN  IF strict = <<>> /\ allow_beta
        THEN Filter(fs, mc_ver, loader, TRUE)
        ELSE strict

pick_latest_release(fs, mc_ver, loader, allow_beta) ==
    LET candidates == SortDesc(Candidates(fs, mc_ver, loader, allow_beta))
    IN  IF candidates # <<>> THEN candidates[1] ELSE None

-----------------------------------------------------------------------------
(* The inputs the selector is exercised on.                                *)

MC == "1.20.1"

\* "", "1", "10", "2": code points of the characters
FileDates == {<<>>, <<49>>, <<49, 48>>, <<50>>}

MatchingRecords ==
    { [gameVersions |-> gv, releaseType |-> rt, fileDate |-> fd] :
        gv \in {<<MC>>, <<MC, "Forge">>}, rt \in {Release, Beta}, fd \in FileDates }
    \cup
    { [gameVersions |-> gv, releaseType |-> rt] :
        gv \in {<<MC>>, <<MC, "Forge">>}, rt \in {Release, Beta} }

OtherRecords ==
    { [releaseType |-> Release, fileDate |-> <<50>>],
      [gameVersions |-> <<"Forge">>, releaseType |-> Release, fileDate |-> <<50>>],
      [gameVersions |-> <<MC, "Forge">>, releaseType |-> Alpha, fileDate |-> <<50>>],
      [gameVersions |-> <<MC, "Forge">>, fileDate |-> <<50>>] }

FileRecords == MatchingRecords \cup OtherRecords

SeqsUpTo(S, n) == UNION { [1..m -> S] : m \in 0..n }

Idle ==
    /\ data = None /\ proj_ids = None /\ exc = "none" /\ api_key = None
    /\ outdir = [exists |-> FALSE, entries |-> [n \in {} |-> None]] /\ pre = outdir
    /\ todo = {} /\ i = 0 /\ http = <<>> /\ stdout = <<>> /\ written = <<>>

InitPick ==
    /\ pc = "pick"
    /\ args \in [mcver : {MC}, loader : {"", "Forge"}, allow_beta : BOOLEAN]
    /\ files \in SeqsUpTo(FileRecords, MaxFiles)
    /\ chosen = None
    /\ Idle

Pick ==
    /\ pc = "pick"
    /\ chosen' = pick_latest_release(files, args.mcver, args.loader, args.allow_beta)
    /\ pc' = "picked"
    /\ UNCHANGED <<args, files, data, proj_ids, exc, api_key, outdir, pre,
                   todo, i, http, stdout, written>>

NextPick == Pick

SpecPick == InitPick /\ [][NextPick]_vars

-----------------------------------------------------------------------------
(* Parsed JSON (json.load) and load_project_ids                            *)

JNull == [t |-> "null"]
JInt(n) == [t |-> "int", v |-> n]
JBool(b) == [t |-> "bool", v |-> b]
JStr(s) == [t |-> "str", v |-> s]       \* s: the characters
JList(s) == [t |-> "list", v |-> s]
JDict(r) == [t |-> "dict", v |-> r]
EmptyDict == [k \in {} |-> JNull]

\* isinstance(x, dict), isinstance(x, list), isinstance(x, int): bool is a
\* subclass of int in Python, so JSON true/false pass the last one.
IsDict(x) == x.t = "dict"
IsList(x) == x.t = "list"
IsInt(x) == x.t \in {"int", "bool"}

\* The outcome of a call: a returned value, or the exception it raised.
Ret(v) == [exc |-> "none", value |-> v]
Raise(e) == [exc |-> e]

KeyError == "KeyError: 'projectID'"
TypeError == "TypeError"
Unrecognized ==
    "SystemExit: Unrecognized input JSON format. Provide manifest.json or a list of projectIDs."

\* x["projectID"]: a dict gives the value or KeyError; an int, bool or None
\* is not subscriptable and a str or list takes no str index (TypeError).
Subscript(x) ==
    IF IsDict(x)
    THEN IF "projectID" \in DOMAIN x.v THEN Ret(x.v.projectID) ELSE Raise(KeyError)
    ELSE Raise(TypeError)

\* [x["projectID"] for x in xs]: the first element that raises ends it.
RECURSIVE ProjectIDs(_)
ProjectIDs(xs) ==
    IF xs = <<>> THEN Ret(<<>>)
    ELSE LET h == Subscript(Head(xs))
         IN  IF h.exc # "none" THEN h
             ELSE LET r == ProjectIDs(Tail(xs))
                  IN  IF r.exc # "none" THEN r
                      ELSE Ret(<<h.value>> \o r.value)

\* what `for x in v` visits: the elements of a list, the characters of a
\* str, the keys of a dict (as str); None, int and bool are not iterable.
Iterable(x) == x.t \in {"list", "str", "dict"}

KeysOf(r) ==
    CHOOSE s \in [1..Cardinality(DOMAIN r) -> DOMAIN r] : Range(s) = DOMAIN r

Elements(x) ==
    IF x.t = "list" THEN x.v
    ELSE IF x.t = "str" THEN [k \in 1..Len(x.v) |-> JStr(<<x.v[k]>>)]
    ELSE [k \in 1..Cardinality(DOMAIN x.v) |-> JStr(<<KeysOf(x.v)[k]>>)]

load_project_ids(d) ==
    IF IsDict(d) /\ "files" \in DOMAIN d.v
    THEN IF Iterable(d.v.files) THEN ProjectIDs(Elements(d.v.files))
         ELSE Raise(TypeError)
    ELSE IF IsList(d) /\ \A k \in 1..Len(d.v) : IsDict(d.v[k])
    THEN ProjectIDs(d.v)
    ELSE IF IsList(d) /\ \A k \in 1..Len(d.v) : IsInt(d.v[k])
    THEN Ret(d.v)
    ELSE Raise(Unrecognized)

(* The inputs the loader is exercised on.                                  *)

JsonElements ==
    { JInt(1), JInt(2), JBool(TRUE), JNull, JStr(<<"7">>),
      JDict([projectID |-> JInt(1)]),
      JDict([projectID |-> JInt(2), fileID |-> JInt(9)]),
      JDict([fileID |-> JInt(9)]),
      JList(<<JInt(1)>>) }

JsonLists == { JList(l) : l \in SeqsUpTo(JsonElements, MaxProjects) }

JsonScalars == { JNull, JInt(1), JBool(FALSE), JStr(<<>>), JStr(<<"x">>) }

JsonInputs ==
    JsonLists \cup JsonScalars
    \cup { JDict([files |-> f]) :
             f \in JsonLists \cup JsonScalars
                   \cup {JDict(EmptyDict), JDict([projectID |-> JInt(1)])} }
    \cup { JDict([files |-> f, name |-> JStr(<<"p">>)]) : f \in JsonLists }
    \cup { JDict([mods |-> f]) : f \in JsonLists }
    \cup { JDict(EmptyDict) }

InitLoad ==
    /\ pc = "load"
    /\ data \in JsonInputs
    /\ proj_ids = None /\ exc = "none" /\ api_key = None
    /\ args = [mcver |-> MC, loader |-> "Forge", allow_beta |-> FALSE]
    /\ files = <<>> /\ chosen = None
    /\ outdir = [exists |-> FALSE, entries |-> [n \in {} |-> None]] /\ pre = outdir
    /\ todo = {} /\ i = 0 /\ http = <<>> /\ stdout = <<>> /\ written = <<>>

\* proj_ids = load_project_ids(path): bound only when the call returns
Load ==
    /\ pc = "load"
    /\ LET r == load_project_ids(data)
       IN  /\ exc' = r.exc
           /\ proj_ids' = IF r.exc = "none" THEN r.value ELSE None
    /\ pc' = "loaded"
    /\ UNCHANGED <<args, files, chosen, data, api_key, outdir, pre, todo, i,
                   http, stdout, written>>

NextLoad == Load

SpecLoad == InitLoad /\ [][NextLoad]_vars

-----------------------------------------------------------------------------
(* main: the staging directory, the requests and the printed lines         *)

Jar == <<".", "j", "a", "r">>

\* name.endswith(suffix)
EndsWith(name, suffix) ==
    /\ Len(name) >= Len(suffix)
    /\ SubSeq(name, Len(name) - Len(suffix) + 1, Len(name)) = suffix

AJar == <<"a", ".", "j", "a", "r">>
BJar == <<"b", ".", "j", "a", "r">>
AUpper == <<"a", ".", "J", "A", "R">>

\* directory entries: a regular file with its content, or a subdirectory
File(c) == [kind |-> "file", content |-> c]
Dir == [kind |-> "dir"]
NoEntries == [n \in {} |-> Dir]

\* d with entry name set to e (created or replaced), and with name removed
WithEntry(d, name, e) ==
    [n \in DOMAIN d \cup {name} |-> IF n = name THEN e ELSE d[n]]
WithoutEntry(d, name) == [n \in DOMAIN d \ {name} |-> d[n]]

\* `not x` for the values .get can hand back here: a str (as its URL text,
\* "" when the key is absent, where Python has None) is falsy when empty
FalsyStr(x) == x = ""

\* `not api_key`: None (variable unset) or the empty string
NoApiKey == api_key = None \/ api_key.v = <<>>

MissingKey == "SystemExit: Missing CURSEFORGE_API_KEY env var"
HTTPError == "requests.HTTPError"
StreamError == "urllib3 read error"
IsADirectoryError == "IsADirectoryError"
NameKeyError == "KeyError: 'fileName'"

Alive == exc = "none" /\ pc # "done"

\* lines 48-51
CheckKey ==
    /\ pc = "start" /\ Alive
    /\ IF NoApiKey THEN exc' = MissingKey /\ pc' = pc
       ELSE exc' = exc /\ pc' = "load"
    /\ UNCHANGED <<args, files, chosen, data, proj_ids, api_key, outdir, pre,
                   todo, i, http, stdout, written>>

\* line 53
LoadIds ==
    /\ pc = "load" /\ Alive
    /\ LET r == load_project_ids(data)
       IN  IF r.exc = "none"
           THEN proj_ids' = r.value /\ exc' = exc /\ pc' = "mkdir"
           ELSE proj_ids' = proj_ids /\ exc' = r.exc /\ pc' = pc
    /\ UNCHANGED <<args, files, chosen, data, api_key, outdir, pre, todo, i,
                   http, stdout, written>>

\* line 54 and the os.listdir call of line 57
MakeDirs ==
    /\ pc = "mkdir" /\ Alive
    /\ outdir' = [outdir EXCEPT !.exists = TRUE]
    /\ todo' = DOMAIN outdir.entries
    /\ pc' = "clean"
    /\ UNCHANGED <<args, files, chosen, data, proj_ids, exc, api_key, pre, i,
                   http, stdout, written>>

\* a pre-clean that passes over one of the jars
CleanStepKeeps ==
    /\ pc = "clean" /\ Alive
    /\ \E name \in todo :
         /\ todo' = todo \ {name}
         /\ IF ~EndsWith(name, Jar) \/ name = BJar
            THEN UNCHANGED <<outdir, exc>>
            ELSE IF outdir.entries[name].kind = "dir"
            THEN exc' = IsADirectoryError /\ outdir' = outdir
            ELSE /\ outdir' = [outdir EXCEPT !.entries = WithoutEntry(@, name)]
                 /\ exc' = exc
    /\ UNCHANGED <<pc, args, files, chosen, data, proj_ids, api_key, pre, i,
                   http, stdout, written>>

\* lines 57-59, one iteration; os.listdir gives the names in arbitrary
\* order, and os.remove raises on a directory
CleanStep ==
    /\ pc = "clean" /\ Alive
    /\ \E name \in todo :
         /\ todo' = todo \ {name}
         /\ IF ~EndsWith(name, Jar)
            THEN UNCHANGED <<outdir, exc>>
            ELSE IF outdir.entries[name].kind = "dir"
            THEN exc' = IsADirectoryError /\ outdir' = outdir
            ELSE /\ outdir' = [outdir EXCEPT !.entries = WithoutEntry(@, name)]
                 /\ exc' = exc
    /\ UNCHANGED <<pc, args, files, chosen, data, proj_ids, api_key, pre, i,
                   http, stdout, written>>

\* the pre-clean loop is exhausted: on to line 61
CleanDone ==
    /\ pc = "clean" /\ Alive /\ todo = {}
    /\ pc' = "loop"
    /\ UNCHANGED <<args, files, chosen, data, proj_ids, exc, api_key, outdir,
                   pre, todo, i, http, stdout, written>>

(* What the hosting service may answer.                                    *)

RA == [fileName |-> AJar, downloadUrl |-> "https://cdn/a",
       gameVersions |-> <<MC, "Forge">>, releaseType |-> Release, fileDate |-> <<50>>]
RA2 == [fileName |-> AJar, downloadUrl |-> "https://cdn/a2",
        gameVersions |-> <<MC, "Forge">>, releaseType |-> Release, fileDate |-> <<49>>]
RB == [fileName |-> BJar, downloadUrl |-> "https://cdn/b",
       gameVersions |-> <<MC>>, releaseType |-> Beta, fileDate |-> <<49, 48>>]
RNoUrl == [fileName |-> AJar,
           gameVersions |-> <<MC, "Forge">>, releaseType |-> Release, fileDate |-> <<50>>]
REmptyUrl == [fileName |-> BJar, downloadUrl |-> "",
              gameVersions |-> <<MC, "Forge">>, releaseType |-> Release, fileDate |-> <<50>>]
RNoName == [downloadUrl |-> "https://cdn/n",
            gameVersions |-> <<MC, "Forge">>, releaseType |-> Release, fileDate |-> <<50>>]

ListingBodies ==
    { [data |-> JList(fs)] :
        fs \in { <<>>, <<RA>>, <<RA2>>, <<RB>>, <<RB, RA>>, <<RNoUrl>>,
                 <<REmptyUrl>>, <<RNoName>>, <<RB, RNoUrl>> } }
    \cup { [data |-> JNull], [status |-> "ok"] }

DownloadBodies == {"body1", "body2"}

\* r.json().get("data", []) or []
FilesOf(body) ==
    LET d == Get(body, "data", JList(<<>>))
    IN  IF d = JNull \/ d.v = <<>> THEN <<>> ELSE d.v

Warn(pid) == [line |-> "[WARN] No matching file for project", pid |-> pid,
              mc |-> args.mcver, loader |-> args.loader]
Downloading(name) == [line |-> "Downloading", name |-> name]
DoneLine == [line |-> "Done."]

ListingRequest(status) ==
    [kind |-> "listing", pos |-> i + 1, pid |-> proj_ids[i + 1],
     key |-> api_key.v, status |-> status]
DownloadRequest(status) ==
    [kind |-> "download", pos |-> i + 1, url |-> chosen.downloadUrl,
     status |-> status]

\* a listing failure caught per project: warn and go on
ListingFailsIsolated ==
    /\ http' = Append(http, ListingRequest("error"))
    /\ stdout' = Append(stdout, Warn(proj_ids[i + 1]))
    /\ i' = i + 1
    /\ UNCHANGED <<pc, exc, files, chosen>>

\* lines 64-65: the listing call fails (a non-2xx status raised by
\* raise_for_status, or requests raising on its own) and nothing catches it
ListingFails ==
    /\ http' = Append(http, ListingRequest("error"))
    /\ exc' = HTTPError
    /\ UNCHANGED <<pc, files, chosen, i, stdout>>

\* a missing match treated as fatal
NoMatchAborts ==
    /\ exc' = "SystemExit: no matching file"
    /\ UNCHANGED <<pc, i, stdout>>

\* lines 69-71: the warning, and on to the next project
NoMatchWarns ==
    /\ stdout' = Append(stdout, Warn(proj_ids[i + 1]))
    /\ i' = i + 1
    /\ UNCHANGED <<pc, exc>>

\* lines 73-75: chosen["fileName"] raises when the key is absent
Announce(c) ==
    IF "fileName" \notin DOMAIN c
    THEN /\ exc' = NameKeyError
         /\ UNCHANGED <<pc, i, stdout>>
    ELSE /\ stdout' = Append(stdout, Downloading(c.fileName))
         /\ pc' = "download"
         /\ UNCHANGED <<i, exc>>

\* lines 61-75 for the next project: the listing call, the selection, and
\* either the warning or the announcement of the download
ListProject ==
    /\ pc = "loop" /\ Alive /\ i < Len(proj_ids)
    /\ \/ ListingFails
       \/ \E body \in ListingBodies :
            LET fs == FilesOf(body)
                c == pick_latest_release(fs, args.mcver, args.loader, args.allow_beta)
            IN  /\ http' = Append(http, ListingRequest("ok"))
                /\ files' = fs
                /\ chosen' = c
                /\ IF c = None \/ FalsyStr(Get(c, "downloadUrl", ""))
                   THEN NoMatchWarns
                   ELSE Announce(c)
    /\ UNCHANGED <<args, data, proj_ids, api_key, outdir, pre, todo, written>>

\* the file opened before the status is looked at
DownloadFailsAfterOpen ==
    /\ http' = Append(http, DownloadRequest("error"))
    /\ exc' = HTTPError
    /\ outdir' = [outdir EXCEPT
                    !.entries = WithEntry(@, chosen.fileName, File("partial"))]
    /\ UNCHANGED <<pc, i, written>>

\* lines 76-77: raise_for_status comes before the file is opened
DownloadFails ==
    /\ http' = Append(http, DownloadRequest("error"))
    /\ exc' = HTTPError
    /\ UNCHANGED <<pc, i, outdir, written>>

\* a download that leaves a file of that name alone when there is one
DownloadKeepsExisting(b) ==
    LET name == chosen.fileName
        kept == IF name \in DOMAIN outdir.entries THEN outdir.entries[name] ELSE File(b)
    IN  /\ outdir' = [outdir EXCEPT !.entries = WithEntry(@, name, kept)]
        /\ written' = Append(written, [pos |-> i + 1, name |-> name, content |-> b])
        /\ i' = i + 1
        /\ pc' = "loop"
        /\ exc' = exc

\* lines 78-79: open(..., "wb") creates the file or truncates the one that
\* is there, copyfileobj fills it with the body
DownloadWrites(b) ==
    LET name == chosen.fileName
    IN  /\ outdir' = [outdir EXCEPT !.entries = WithEntry(@, name, File(b))]
        /\ written' = Append(written, [pos |-> i + 1, name |-> name, content |-> b])
        /\ i' = i + 1
        /\ pc' = "loop"
        /\ exc' = exc

\* lines 78-79 when the stream breaks while copying: the file is left with
\* part of the body
DownloadBreaks ==
    LET name == chosen.fileName
    IN  /\ outdir' = [outdir EXCEPT !.entries = WithEntry(@, name, File("partial"))]
        /\ written' = Append(written,
                             [pos |-> i + 1, name |-> name, content |-> "partial"])
        /\ exc' = StreamError
        /\ UNCHANGED <<pc, i>>

\* lines 76-79
Download ==
    /\ pc = "download" /\ Alive
    /\ \/ DownloadFails
       \/ /\ http' = Append(http, DownloadRequest("ok"))
          /\ \/ \E b \in DownloadBodies : DownloadWrites(b)
             \/ DownloadBreaks
    /\ UNCHANGED <<args, files, chosen, data, proj_ids, api_key, pre, todo, stdout>>

\* the end of the loop without the completion line
FinishSilent ==
    /\ pc = "loop" /\ Alive /\ i = Len(proj_ids)
    /\ pc' = "done"
    /\ UNCHANGED <<args, files, chosen, data, proj_ids, exc, api_key, outdir,
                   pre, todo, i, http, stdout, written>>

\* line 81, reached when the for loop is exhausted
Finish ==
    /\ pc = "loop" /\ Alive /\ i = Len(proj_ids)
    /\ stdout' = Append(stdout, DoneLine)
    /\ pc' = "done"
    /\ UNCHANGED <<args, files, chosen, data, proj_ids, exc, api_key, outdir,
                   pre, todo, i, http, written>>

(* The runs of main.                                                       *)

PreDirs ==
    { [exists |-> FALSE, entries |-> NoEntries],
      [exists |-> TRUE, entries |-> NoEntries],
      [exists |-> TRUE, entries |-> (AJar :> File("old"))],
      [exists |-> TRUE, entries |-> (AJar :> File("old")) @@ (AUpper :> File("old"))],
      [exists |-> TRUE, entries |-> (AJar :> File("old")) @@ (BJar :> File("old"))],
      [exists |-> TRUE, entries |-> (AJar :> File("old")) @@ (BJar :> Dir)] }

MainInputs ==
    { JList(l) : l \in SeqsUpTo({JInt(1), JInt(2)}, MaxProjects) }
    \cup { JDict([files |-> JList(<<JDict([projectID |-> JInt(1)])>>)]),
           JList(<<JInt(1), JDict([projectID |-> JInt(2)])>>),
           JList(<<JDict([projectID |-> JInt(1)]), JDict([fileID |-> JInt(9)])>>),
           JDict([mods |-> JList(<<JInt(1)>>)]),
           JDict([files |-> JDict(EmptyDict)]),
           JNull }

Init ==
    /\ pc = "start"
    /\ args \in [mcver : {MC}, loader : {"", "Forge"}, allow_beta : BOOLEAN]
    /\ api_key \in {None, JStr(<<>>), JStr(<<"k">>)}
    /\ data \in MainInputs
    /\ pre \in PreDirs
    /\ outdir = pre
    /\ proj_ids = None /\ files = <<>> /\ chosen = None /\ exc = "none"
    /\ todo = {} /\ i = 0 /\ http = <<>> /\ stdout = <<>> /\ written = <<>>

Next ==
    \/ CheckKey
    \/ LoadIds
    \/ MakeDirs
    \/ CleanStep
    \/ CleanDone
    \/ ListProject
    \/ Download
    \/ Finish

Spec == Init /\ [][Next]_vars

-----------------------------------------------------------------------------
(* C1: whatever the selector returns carries the wanted game version, carries *)
(* the loader tag unless the tag is empty, and is a release, or a beta taken  *)
(* with allow_beta set while no record of the input is an eligible release;   *)
(* an alpha or a record without releaseType is never returned.                *)

Matches(f) ==
    /\ "gameVersions" \in DOMAIN f
    /\ \E n \in 1..Len(f.gameVersions) : f.gameVersions[n] = args.mcver
    /\ \/ args.loader = ""
       \/ \E n \in 1..Len(f.gameVersions) : f.gameVersions[n] = args.loader

HasType(f, rt) == "releaseType" \in DOMAIN f /\ f.releaseType = rt

EligibleRelease(f) == Matches(f) /\ HasType(f, 1)

NoEligibleRelease == \A n \in 1..Len(files) : ~EligibleRelease(files[n])

C1_ReturnedIsEligible ==
    (pc = "picked" /\ chosen # None) =>
        /\ Matches(chosen)
        /\ \/ HasType(chosen, 1)
           \/ HasType(chosen, 2) /\ args.allow_beta /\ NoEligibleRelease

\* a beta is returned although an alpha and a record without releaseType with
\* a later fileDate were on offer, the loader tag being asked for
C1_Witness ==
    /\ pc = "picked" /\ chosen # None /\ HasType(chosen, 2)
    /\ args.loader = "Forge"
    /\ \E n \in 1..Len(files) : HasType(files[n], 3)
    /\ \E n \in 1..Len(files) : "releaseType" \notin DOMAIN files[n]

-----------------------------------------------------------------------------
(* C2: the selector returns None exactly when no record is a candidate        *)
(* (eligible releases, or eligible releases and betas when there is no        *)
(* eligible release and allow_beta is set); otherwise it returns the          *)
(* candidate with the greatest fileDate as a string (a missing one counting   *)
(* as ""), the first of them in the input when several share that date.       *)

CandidateAt(n) ==
    /\ Matches(files[n])
    /\ \/ HasType(files[n], 1)
       \/ HasType(files[n], 2) /\ args.allow_beta /\ NoEligibleRelease

DateAt(n) == IF "fileDate" \in DOMAIN files[n] THEN files[n].fileDate ELSE <<>>

\* a <= b on strings, spelled out position by position
StrLeq(a, b) ==
    \/ Len(a) <= Len(b) /\ \A k \in 1..Len(a) : a[k] = b[k]
    \/ \E k \in 1..Len(a) :
          /\ k <= Len(b)
          /\ \A j \in 1..(k - 1) : a[j] = b[j]
          /\ a[k] < b[k]

BestAt(n) ==
    /\ CandidateAt(n)
    /\ \A m \in 1..Len(files) :
          CandidateAt(m) =>
              /\ StrLeq(DateAt(m), DateAt(n))
              /\ DateAt(m) = DateAt(n) => n <= m

C2_NewestFirstOfTies ==
    pc = "picked" =>
        /\ (chosen = None) <=> (\A n \in 1..Len(files) : ~CandidateAt(n))
        /\ \A n \in 1..Len(files) : BestAt(n) => chosen = files[n]

\* two different candidates share the greatest date and a candidate with
\* another date precedes them: the first of the two is returned
C2_Witness ==
    /\ pc = "picked" /\ Len(files) = 3
    /\ CandidateAt(1) /\ BestAt(2) /\ CandidateAt(3)
    /\ DateAt(3) = DateAt(2) /\ files[3] # files[2]
    /\ DateAt(1) # DateAt(2)
    /\ chosen = files[2]

-----------------------------------------------------------------------------
(* C3: an input that is none of the three accepted shapes (a mapping with   *)
(* key files holding a sequence of mappings that each contain projectID, a  *)
(* sequence of such mappings, a sequence of integers) makes the loader fail *)
(* with the unrecognized-format exit, and no list of ids is returned.       *)

HasProjectID(x) == x.t = "dict" /\ "projectID" \in DOMAIN x.v

ListOfProjects(x) == x.t = "list" /\ \A k \in 1..Len(x.v) : HasProjectID(x.v[k])

\* JSON true/false are counted with the integers here, as Python does
ListOfIntegers(x) ==
    x.t = "list" /\ \A k \in 1..Len(x.v) : x.v[k].t \in {"int", "bool"}

AcceptedShape(d) ==
    \/ d.t = "dict" /\ "files" \in DOMAIN d.v /\ ListOfProjects(d.v.files)
    \/ ListOfProjects(d)
    \/ ListOfIntegers(d)

C3_OtherShapesUnrecognized ==
    (pc = "loaded" /\ ~AcceptedShape(data)) =>
        (exc = Unrecognized /\ proj_ids = None)

-----------------------------------------------------------------------------
(* Histories read off the logs.                                             *)

Terminated == exc # "none" \/ pc = "done"

InLoop == pc \in {"loop", "download", "done"}

WrittenNames == { written[k].name : k \in 1..Len(written) }

WritesOf(n) == { k \in 1..Len(written) : written[k].name = n }

LastWriteOf(n) ==
    written[CHOOSE k \in WritesOf(n) : \A j \in WritesOf(n) : j <= k]

\* the jar files that were in the staging directory before the run, are
\* still there, and were not written by a download of this run
StaleJars ==
    { n \in DOMAIN pre.entries \cap DOMAIN outdir.entries :
        /\ EndsWith(n, Jar)
        /\ pre.entries[n].kind = "file"
        /\ n \notin WrittenNames }

-----------------------------------------------------------------------------
(* C4, as claimed: once a run has ended, by completion or by any abort, no  *)
(* jar file from before the run is left unless a download wrote it.         *)

C4_NoStaleJarHoweverItEnds == Terminated => StaleJars = {}

(* C4, amended: from the moment the run enters the per-project loop, and    *)
(* however it ends after that, no jar file from before the run is left in   *)
(* the staging directory unless a download of this run wrote it.            *)

C4_NoStaleJarOnceInLoop == InLoop => StaleJars = {}

\* a run that aborted inside the loop: of the two old jars one is gone and
\* the other is back because it was downloaded
C4_Witness ==
    /\ InLoop /\ exc = HTTPError
    /\ AJar \in DOMAIN pre.entries /\ BJar \in DOMAIN pre.entries
    /\ AJar \in DOMAIN outdir.entries /\ AJar \in WrittenNames
    /\ BJar \notin DOMAIN outdir.entries

-----------------------------------------------------------------------------
(* C5: when the API key is missing (unset or empty) or the input file has   *)
(* none of the three accepted shapes, the run never gets past the load: no  *)
(* request is issued, the staging directory is neither created nor changed, *)
(* nothing is written or printed, and the run does not complete.            *)

C5_ConfigErrorBeforeSideEffects ==
    (NoApiKey \/ ~AcceptedShape(data)) =>
        /\ pc \in {"start", "load"}
        /\ http = <<>> /\ written = <<>> /\ stdout = <<>>
        /\ outdir = pre

-----------------------------------------------------------------------------
(* C6: the k-th listing request is for the k-th project of the input; a     *)
(* listing request that fails is the last request of the run, the run has   *)
(* ended there with the HTTP error, no file was written for that project,   *)
(* and every file downloaded for earlier projects is in the staging         *)
(* directory with the content that was downloaded last under its name.      *)

ListingsUpTo(k) == { j \in 1..k : http[j].kind = "listing" }

C6_ListingFailureAborts ==
    \A k \in 1..Len(http) :
        /\ http[k].kind = "listing" =>
              /\ http[k].pos = Cardinality(ListingsUpTo(k))
              /\ http[k].pid = proj_ids[http[k].pos]
        /\ http[k].kind = "download" =>
              /\ k > 1 /\ http[k - 1].kind = "listing"
              /\ http[k - 1].pos = http[k].pos
        /\ (http[k].kind = "listing" /\ http[k].status = "error") =>
              /\ k = Len(http)
              /\ exc = HTTPError /\ pc = "loop" /\ i = http[k].pos - 1
              /\ \A w \in 1..Len(written) : written[w].pos < http[k].pos
              /\ \A n \in WrittenNames :
                    /\ n \in DOMAIN outdir.entries
                    /\ outdir.entries[n] = File(LastWriteOf(n).content)

\* the listing of the second project failed after the first was downloaded
C6_Witness ==
    /\ Len(http) = 3 /\ http[3].kind = "listing" /\ http[3].status = "error"
    /\ Len(written) = 1 /\ Len(proj_ids) = 2 /\ proj_ids[1] # proj_ids[2]

-----------------------------------------------------------------------------
(* C7: a step in which the listing succeeds and the selector gives nothing, *)
(* or a record without a non-empty downloadUrl, prints the warning for that *)
(* project, issues no download request, leaves the staging directory as it  *)
(* is and moves on to the next project; and a run whose projects all ended  *)
(* that way can print the completion line, after which it has exited 0.     *)

NoUsableMatch(c) ==
    c = None \/ "downloadUrl" \notin DOMAIN c \/ c.downloadUrl = ""

ListingAnswered ==
    /\ pc = "loop"
    /\ Len(http') = Len(http) + 1
    /\ http'[Len(http')].kind = "listing" /\ http'[Len(http')].status = "ok"

OnlyWarnings == \A k \in 1..Len(stdout) : stdout[k] = Warn(proj_ids[k])

AllWarned ==
    /\ Len(stdout) = Len(proj_ids) + 1
    /\ \A k \in 1..Len(proj_ids) : stdout[k] = Warn(proj_ids[k])

C7_NoMatchWarnsAndContinues ==
    /\ [][ (ListingAnswered /\ NoUsableMatch(chosen')) =>
              /\ stdout' = Append(stdout, Warn(proj_ids[i + 1]))
              /\ outdir' = outdir /\ written' = written
              /\ pc' = "loop" /\ i' = i + 1 /\ exc' = "none" ]_vars
    /\ []( (pc = "loop" /\ exc = "none" /\ OnlyWarnings) =>
              /\ \A k \in 1..Len(http) : http[k].kind = "listing"
              /\ written = <<>> /\ Len(stdout) = i
              /\ i = Len(proj_ids) => ENABLED Finish )
    /\ []( (pc = "done" /\ AllWarned) =>
              /\ exc = "none" /\ stdout[Len(stdout)] = DoneLine
              /\ \A k \in 1..Len(http) : http[k].kind = "listing"
              /\ written = <<>> )

\* two projects, one without any match and one whose match has an empty
\* downloadUrl, and the run completed
C7_Witness ==
    /\ pc = "done" /\ exc = "none" /\ Len(proj_ids) = 2
    /\ Len(stdout) = 3 /\ stdout[1].line = Warn(0).line /\ stdout[2].line = Warn(0).line
    /\ chosen = REmptyUrl /\ Len(http) = 2 /\ written = <<>>

-----------------------------------------------------------------------------
(* C8, as claimed: every run that entered the per-project loop and has      *)
(* ended, by completion or by abort, has printed the completion line.       *)

DonePrinted == \E k \in 1..Len(stdout) : stdout[k] = DoneLine

C8_DoneAlsoOnAbort == (InLoop /\ Terminated) => DonePrinted

(* C8, amended: the completion line is printed exactly by the runs that     *)
(* processed every project without a fatal error, as their last line; a run *)
(* that aborts on a listing or download error never prints it.              *)

C8_DoneOnlyOnCompletion ==
    /\ DonePrinted <=> pc = "done"
    /\ pc = "done" =>
          /\ exc = "none" /\ i = Len(proj_ids)
          /\ stdout[Len(stdout)] = DoneLine
    /\ exc # "none" => ~DonePrinted

\* a run that aborted on a failed download after it had downloaded a project
C8_Witness ==
    /\ pc = "download" /\ exc = HTTPError /\ i = 1 /\ Len(written) = 1
    /\ ~DonePrinted

-----------------------------------------------------------------------------
(* C9: a name under which downloads succeeded is one entry of the staging   *)
(* directory, and its content is the body of the last of these downloads;   *)
(* so when several projects resolve to one fileName the directory holds     *)
(* fewer written files than there were downloads.                           *)

Complete(n) == \A k \in WritesOf(n) : written[k].content # "partial"

C9_LastDownloadWins ==
    /\ \A n \in WrittenNames :
          Complete(n) =>
              /\ n \in DOMAIN outdir.entries
              /\ outdir.entries[n] = File(LastWriteOf(n).content)
    /\ Cardinality(WrittenNames) <= Len(written)
    /\ (\E n \in WrittenNames : Cardinality(WritesOf(n)) > 1) =>
          Cardinality(WrittenNames) < Len(written)

\* two projects downloaded different bodies under the same name, from
\* different URLs; the completed run left one file, holding the second body
C9_Witness ==
    /\ pc = "done" /\ Len(written) = 2
    /\ written[1].name = written[2].name
    /\ written[1].content # written[2].content
    /\ http[2].url # http[4].url
    /\ DOMAIN outdir.entries = {written[2].name}
    /\ outdir.entries[written[2].name].content = written[2].content

-----------------------------------------------------------------------------
(* C10: a step in which the download request is answered with an error      *)
(* status ends the run and leaves the staging directory exactly as it was:  *)
(* no file is created, and a file of the chosen name written earlier in the *)
(* run keeps its content.                                                   *)

DownloadRefused ==
    /\ pc = "download"
    /\ Len(http') = Len(http) + 1
    /\ http'[Len(http')].kind = "download" /\ http'[Len(http')].status = "error"

C10_FailedDownloadTouchesNothing ==
    [][ DownloadRefused =>
          /\ outdir' = outdir /\ written' = written
          /\ exc' = HTTPError /\ pc' = pc /\ i' = i ]_vars

\* the refused download was for a name an earlier project had written
C10_Witness ==
    /\ pc = "download" /\ exc = HTTPError
    /\ http[Len(http)].status = "error"
    /\ chosen.fileName \in WrittenNames
    /\ outdir.entries[chosen.fileName] = File(LastWriteOf(chosen.fileName).content)

====
